---- MODULE Spec2Model ----
(***************************************************************************)
(* Model of the aquashuffle simulation (src/src/main.rs): the round        *)
(* operator distribute_water, the trial runner run_sim and the aggregator  *)
(* get_success_round.                                                      *)
(*                                                                         *)
(* f64 values are modelled as exact rationals <<numerator, denominator>>   *)
(* in lowest terms (denominator > 0), so every arithmetic statement below  *)
(* is a statement in exact arithmetic.                                     *)
(***************************************************************************)
EXTENDS Integers, FiniteSets, Sequences, TLC

\* ---------------------------------------------------------------- sizes
\* The program's constants, scaled down so that the state space is finite
\* and small (the source has 2^14, 128, 4000 and 1000).  VECTOR_LENGTH and
\* SHUFFLE_SIZE size the cups and the batch; MAX_SHUFFLES and
\* NUMBER_OF_REPETITIONS bound the length of a run.
VECTOR_LENGTH ==
    7

SHUFFLE_SIZE ==
    2

MAX_SHUFFLES ==
    2

NUMBER_OF_REPETITIONS ==
    2

\* main's sweep `for p in 1..=49`, restricted to a few percentages (one per
\* number of corrupted commitments) for which, as in the program, the target
\* water level is below the initial level 1.0 of the tracked cup.
SweepPercents ==
    {1, 15, 29}

\* The operator-level specification starts distribute_water from arbitrary
\* cups and arbitrary corrupted sets over the first OpSupport slots.
OpSupport ==
    3

\* Outcome of a failed `unwrap()` in get_success_round.
Panic ==
    -1

\* ------------------------------------------------------- exact arithmetic
\* Greatest common divisor and reduction to lowest terms; functions, so that
\* their arguments are evaluated once.
gcd[a \in Nat, b \in Nat] ==
    IF b = 0 THEN a ELSE gcd[b, a % b]

reduce[n \in Nat, d \in Nat] ==
    IF n = 0 THEN <<0, 1>> ELSE <<n \div gcd[n, d], d \div gcd[n, d]>>

Norm(n, d) ==
    reduce[n, d]

Zero ==
    <<0, 1>>

One ==
    <<1, 1>>

RAdd(x, y) ==
    Norm(x[1] * y[2] + y[1] * x[2], x[2] * y[2])

RDiv(x, n) ==
    Norm(x[1], x[2] * n)

RLess(x, y) ==
    x[1] * y[2] < y[1] * x[2]

RLeq(x, y) ==
    x[1] * y[2] <= y[1] * x[2]

\* ------------------------------------------------------------- sampling
Slots ==
    0 .. (VECTOR_LENGTH - 1)

\* IteratorRandom::choose_multiple(rng, amount): `amount` distinct elements
\* of the iterator, or all of them when it has fewer.
choose_multiple(S, amount) ==
    IF amount >= Cardinality(S)
    THEN {S}
    ELSE {B \in SUBSET S : Cardinality(B) = amount}

\* ------------------------------------------------------- distribute_water
SampleBatch ==
    choose_multiple(Slots, SHUFFLE_SIZE)

HonestSetNoFilter(shuffled, corrupted) ==
    shuffled

HonestSet(shuffled, corrupted) ==
    shuffled \ corrupted

\* cups.get(v).unwrap_or(&0.0)
WaterOf(cups, v) ==
    IF v \in DOMAIN cups THEN cups[v] ELSE Zero

RECURSIVE TotalWater(_, _)
TotalWater(cups, S) ==
    IF S = {}
    THEN Zero
    ELSE LET v == CHOOSE x \in S : TRUE
         IN RAdd(TotalWater(cups, S \ {v}), WaterOf(cups, v))

AvgWaterByBatchSize(cups, honest_set) ==
    RDiv(TotalWater(cups, honest_set), SHUFFLE_SIZE)

AvgWaterNoDivision(cups, honest_set) ==
    TotalWater(cups, honest_set)

AvgWater(cups, honest_set) ==
    RDiv(TotalWater(cups, honest_set), Cardinality(honest_set))

PourExistingOnly(cups, honest_set, avg_water) ==
    [i \in DOMAIN cups |-> IF i \in honest_set THEN avg_water ELSE cups[i]]

PourAccumulate(cups, honest_set, avg_water) ==
    [i \in (DOMAIN cups) \cup honest_set |->
        IF i \in honest_set THEN RAdd(WaterOf(cups, i), avg_water) ELSE cups[i]]

PourDropsOthers(cups, honest_set, avg_water) ==
    [i \in honest_set |-> avg_water]

Pour(cups, honest_set, avg_water) ==
    [i \in (DOMAIN cups) \cup honest_set |->
        IF i \in honest_set THEN avg_water ELSE cups[i]]

distribute_water(cups, corrupted, shuffled) ==
    LET honest_set == HonestSet(shuffled, corrupted)
        num_honest == Cardinality(honest_set)
    IN IF num_honest = 0
       THEN cups
       ELSE Pour(cups, honest_set, AvgWater(cups, honest_set))

\* ------------------------------------------------------ get_success_round
ReachedAll(round_success) ==
    RDiv(<<round_success, 1>>, NUMBER_OF_REPETITIONS) = One

RECURSIVE ScanFrom(_, _)
ScanFrom(sum, r) ==
    IF r >= MAX_SHUFFLES
    THEN 0
    ELSE IF r \notin DOMAIN sum
         THEN Panic
         ELSE IF ReachedAll(sum[r]) THEN r + 1 ELSE ScanFrom(sum, r + 1)

get_success_round_zero_based(sum) ==
    LET r == ScanFrom(sum, 0) IN IF r > 0 THEN r - 1 ELSE r

get_success_round(sum) ==
    ScanFrom(sum, 0)

\* ------------------------------------------------------------------ main
\* ((VECTOR_LENGTH as f64) * fraction_corrupted_commitments) as usize
CorruptedCount(pct) ==
    (VECTOR_LENGTH * pct) \div 100

\* 4.0 / (VECTOR_LENGTH as f64 * (1.0 - fraction_corrupted_commitments))
TargetEps(pct) ==
    Norm(4 * 100, VECTOR_LENGTH * (100 - pct))

\* ----------------------------------------------------------------- state
VARIABLES
    pc,                      \* position in run_sim / the operation under test
    p,                       \* main's loop variable (percent corrupted)
    corrupted_commitments,   \* run_sim's parameter
    target_eps,              \* run_sim's parameter
    sum_succ_in_round,       \* round index -> number of successful trials
    rep,                     \* repetitions completed
    is_success,
    bad_commitment_indices,
    water_cups,
    t,                       \* round index inside the repetition
    shuffled_batch,          \* the batch sampled by the last distribute_water
    successful_round,        \* result of get_success_round
    steps                    \* history: number of steps taken so far

vars ==
    <<pc, p, corrupted_commitments, target_eps, sum_succ_in_round, rep,
      is_success, bad_commitment_indices, water_cups, t, shuffled_batch,
      successful_round, steps>>

\* --------------------------------------------------------------- run_sim
SampleCorruptedFromZero(amount) ==
    choose_multiple(Slots, amount)

SampleCorrupted(amount) ==
    choose_multiple(1 .. (VECTOR_LENGTH - 1), amount)

MinWater(cups) ==
    CHOOSE m \in {cups[i] : i \in DOMAIN cups} :
        \A i \in DOMAIN cups : RLeq(m, cups[i])

\* water_cups.values().max_by(|a, b| a.total_cmp(b))
MaxWater(cups) ==
    CHOOSE m \in {cups[i] : i \in DOMAIN cups} :
        \A i \in DOMAIN cups : RLeq(cups[i], m)

\* sum_succ_in_round.entry(t).or_insert(0.0) += 1.0
CountSuccess(sum, r) ==
    [i \in (DOMAIN sum) \cup {r} |->
        IF i = r THEN (IF r \in DOMAIN sum THEN sum[r] ELSE 0) + 1 ELSE sum[i]]

\* The sanity check at the end of each round.
SanityHolds(cups, corrupted) ==
    \A index \in DOMAIN cups : index \in corrupted => cups[index] = Zero

MoreShufflesInclusive(r) ==
    r <= MAX_SHUFFLES

MoreShuffles(r) ==
    r < MAX_SHUFFLES

\* `*max_water < target_eps`, evaluated after every distribute_water call
RoundCounts(cups, eps) ==
    RLess(MaxWater(cups), eps)

Init ==
    /\ p \in SweepPercents
    /\ corrupted_commitments = CorruptedCount(p)
    /\ target_eps = TargetEps(p)
    /\ sum_succ_in_round = [r \in 0 .. (MAX_SHUFFLES - 1) |-> 0]
    /\ rep = 0
    /\ is_success = FALSE
    /\ bad_commitment_indices = {}
    /\ water_cups = <<>>
    /\ t = 0
    /\ shuffled_batch = {}
    /\ successful_round = 0
    /\ steps = 0
    /\ pc = "repetition"

StartRepetition ==
    /\ pc = "repetition"
    /\ rep < NUMBER_OF_REPETITIONS
    /\ is_success' = FALSE
    /\ bad_commitment_indices' \in SampleCorrupted(corrupted_commitments)
    /\ water_cups' = [i \in {0} |-> One]
    /\ t' = 0
    /\ pc' = "shuffle"
    /\ steps' = steps + 1
    /\ UNCHANGED <<p, corrupted_commitments, target_eps, sum_succ_in_round,
                   rep, shuffled_batch, successful_round>>

Round ==
    /\ pc = "shuffle"
    /\ MoreShuffles(t)
    /\ \E shuffled \in SampleBatch :
         \E cups \in {distribute_water(water_cups, bad_commitment_indices,
                                       shuffled)} :
           \E counted \in {RoundCounts(cups, target_eps)} :
              /\ shuffled_batch' = shuffled
              /\ water_cups' = cups
              /\ sum_succ_in_round' =
                   IF counted THEN CountSuccess(sum_succ_in_round, t)
                   ELSE sum_succ_in_round
              /\ is_success' = (is_success \/ counted)
              /\ pc' = IF SanityHolds(cups, bad_commitment_indices)
                       THEN "shuffle" ELSE "aborted"
    /\ t' = t + 1
    /\ steps' = steps + 1
    /\ UNCHANGED <<p, corrupted_commitments, target_eps, rep,
                   bad_commitment_indices, successful_round>>

EndRepetition ==
    /\ pc = "shuffle"
    /\ ~MoreShuffles(t)
    /\ rep' = rep + 1
    /\ pc' = "repetition"
    /\ steps' = steps + 1
    /\ UNCHANGED <<p, corrupted_commitments, target_eps, sum_succ_in_round,
                   is_success, bad_commitment_indices, water_cups, t,
                   shuffled_batch, successful_round>>

Report ==
    /\ pc = "repetition"
    /\ rep >= NUMBER_OF_REPETITIONS
    /\ successful_round' = get_success_round(sum_succ_in_round)
    /\ pc' = "done"
    /\ steps' = steps + 1
    /\ UNCHANGED <<p, corrupted_commitments, target_eps, sum_succ_in_round,
                   rep, is_success, bad_commitment_indices, water_cups, t,
                   shuffled_batch>>

Next ==
    \/ StartRepetition
    \/ Round
    \/ EndRepetition
    \/ Report

Spec ==
    Init /\ [][Next]_vars

\* ------------------------------------------- distribute_water on its own
\* distribute_water called once on arbitrary cups and an arbitrary corrupted
\* set: masses 0, 1/2 and 1 (or no entry) in the first OpSupport slots.
MassValues ==
    {Zero, <<1, 2>>, One}

OpSlots ==
    0 .. (OpSupport - 1)

OpInit ==
    /\ water_cups \in UNION {[D -> MassValues] : D \in SUBSET OpSlots}
    /\ bad_commitment_indices \in SUBSET OpSlots
    /\ shuffled_batch = {}
    /\ pc = "op"
    /\ p = 0
    /\ corrupted_commitments = 0
    /\ target_eps = Zero
    /\ sum_succ_in_round = <<>>
    /\ rep = 0
    /\ is_success = FALSE
    /\ t = 0
    /\ successful_round = 0
    /\ steps = 0

OpDistribute ==
    /\ pc = "op"
    /\ \E shuffled \in SampleBatch :
         /\ shuffled_batch' = shuffled
         /\ water_cups' =
              distribute_water(water_cups, bad_commitment_indices, shuffled)
    /\ pc' = "op_done"
    /\ steps' = steps + 1
    /\ UNCHANGED <<p, corrupted_commitments, target_eps, sum_succ_in_round,
                   rep, is_success, bad_commitment_indices, t,
                   successful_round>>

OpNext ==
    OpDistribute

SpecOp ==
    OpInit /\ [][OpNext]_vars

\* ------------------------------------------ get_success_round on its own
\* get_success_round called once on an arbitrary tally: any set of keys up
\* to MAX_SHUFFLES, any count up to one more than NUMBER_OF_REPETITIONS.
AggInit ==
    /\ sum_succ_in_round \in
         UNION {[D -> 0 .. (NUMBER_OF_REPETITIONS + 1)] :
                    D \in SUBSET (0 .. MAX_SHUFFLES)}
    /\ pc = "agg"
    /\ successful_round = 0
    /\ p = 0
    /\ corrupted_commitments = 0
    /\ target_eps = Zero
    /\ rep = 0
    /\ is_success = FALSE
    /\ bad_commitment_indices = {}
    /\ water_cups = <<>>
    /\ t = 0
    /\ shuffled_batch = {}
    /\ steps = 0

AggScan ==
    /\ pc = "agg"
    /\ successful_round' = get_success_round(sum_succ_in_round)
    /\ pc' = "agg_done"
    /\ steps' = steps + 1
    /\ UNCHANGED <<p, corrupted_commitments, target_eps, sum_succ_in_round,
                   rep, is_success, bad_commitment_indices, water_cups, t,
                   shuffled_batch>>

AggNext ==
    AggScan

SpecAgg ==
    AggInit /\ [][AggNext]_vars

\* ================================================================= claims
InTrial ==
    pc \in {"shuffle", "aborted"}

\* A step of Round: one iteration of the shuffle loop of run_sim.
RoundStep ==
    pc = "shuffle" /\ t' = t + 1

\* The honest set of the batch sampled by the step being taken.
HonestNow ==
    shuffled_batch' \ bad_commitment_indices

\* A step of OpDistribute: one call of distribute_water.
OpStep ==
    pc = "op" /\ pc' = "op_done"

\* The honest set of the batch sampled by the call that has returned.
HonestDone ==
    shuffled_batch \ bad_commitment_indices

\* Every cup present holds less than the level eps.
AllBelow(cups, eps) ==
    \A i \in DOMAIN cups : RLess(cups[i], eps)

\* C1: in every trial, after every round, every corrupted cup is absent from
\* the cups or holds exactly 0.0, and the sanity assertion of run_sim never
\* fires.
C1_ExcludedInvariant ==
    /\ pc # "aborted"
    /\ \A i \in bad_commitment_indices :
         i \notin DOMAIN water_cups \/ water_cups[i] = Zero

\* A round whose batch mixed the tracked cup (holding water) with a corrupted
\* cup has been executed.
C1_Witness ==
    /\ pc = "shuffle"
    /\ t = 1
    /\ 0 \in shuffled_batch
    /\ shuffled_batch \cap bad_commitment_indices # {}

\* C2: for any cups, any corrupted set and any batch with a non-empty honest
\* set, the total water of the honest set is the same before and after
\* distribute_water.
C2_MassConservation ==
    [][OpStep /\ HonestNow # {} =>
         TotalWater(water_cups', HonestNow) = TotalWater(water_cups, HonestNow)]_vars

\* distribute_water has averaged two honest cups that held 1/2 and 1.
C2_Witness ==
    /\ pc = "op_done"
    /\ Cardinality(HonestDone) = 2
    /\ \A i \in HonestDone : i \in DOMAIN water_cups /\ water_cups[i] = <<3, 4>>

\* C3: after distribute_water with a non-empty honest set, every honest cup
\* is present and holds (total water of the honest set before) / (size of
\* the honest set), whatever it held before.
C3_UniformValue ==
    [][OpStep /\ HonestNow # {} =>
         \A i \in HonestNow :
            /\ i \in DOMAIN water_cups'
            /\ water_cups'[i] =
                 RDiv(TotalWater(water_cups, HonestNow), Cardinality(HonestNow))]_vars

\* distribute_water has poured water into an honest cup that had no entry
\* (a slot beyond the initially populated ones), sharing another cup's water.
C3_Witness ==
    /\ pc = "op_done"
    /\ \E i \in HonestDone :
         i >= OpSupport /\ i \in DOMAIN water_cups /\ water_cups[i] = <<1, 2>>

\* C4: distribute_water leaves the entry (presence and water) of every cup
\* outside the honest set unchanged; with an empty honest set the cups are
\* unchanged as a whole.
C4_Frame ==
    [][OpStep =>
         /\ \A i \in Slots \ HonestNow :
              /\ (i \in DOMAIN water_cups') <=> (i \in DOMAIN water_cups)
              /\ i \in DOMAIN water_cups => water_cups'[i] = water_cups[i]
         /\ HonestNow = {} => water_cups' = water_cups]_vars

\* distribute_water has returned from a batch of corrupted cups only, one of
\* which holds water, with another cup with water outside the batch.
C4_Witness ==
    /\ pc = "op_done"
    /\ shuffled_batch # {}
    /\ HonestDone = {}
    /\ \E i \in shuffled_batch : i \in DOMAIN water_cups /\ water_cups[i] = One
    /\ \E i \in Slots \ shuffled_batch :
         i \in DOMAIN water_cups /\ water_cups[i] = <<1, 2>>

\* The tally has an entry for every round, as the one run_sim builds.
FullTally ==
    (0 .. (MAX_SHUFFLES - 1)) \subseteq DOMAIN sum_succ_in_round

\* The rounds in which every repetition succeeded.
UniversalRounds ==
    {r \in 0 .. (MAX_SHUFFLES - 1) :
        sum_succ_in_round[r] = NUMBER_OF_REPETITIONS}

\* C5: on a tally with an entry for every round, get_success_round returns
\* r+1 for the smallest round r whose count equals the number of
\* repetitions, and 0 when there is none; the result is in 0..MAX_SHUFFLES
\* and the scan does not fail.
C5_AggregatorResult ==
    pc = "agg_done" /\ FullTally =>
        /\ successful_round \in 0 .. MAX_SHUFFLES
        /\ UniversalRounds = {} => successful_round = 0
        /\ UniversalRounds # {} =>
             /\ successful_round - 1 \in UniversalRounds
             /\ \A r \in UniversalRounds : successful_round - 1 <= r

\* The scan has returned 2 on a tally whose round 0 misses the count and
\* whose round 1 reaches it.
C5_Witness ==
    /\ pc = "agg_done"
    /\ FullTally
    /\ sum_succ_in_round[0] = NUMBER_OF_REPETITIONS - 1
    /\ sum_succ_in_round[1] = NUMBER_OF_REPETITIONS
    /\ successful_round = 2

\* C6 as stated: a round whose batch has an empty honest set does not change
\* the success tally.
C6_DegenerateRoundNeutral ==
    [][RoundStep /\ HonestNow = {} => sum_succ_in_round' = sum_succ_in_round]_vars

\* C6 amended: a round whose batch has an empty honest set leaves the cups
\* unchanged and does not abort, and it is evaluated like any other round:
\* the tally entry of that round is incremented by one exactly when every
\* cup of the unchanged mapping is below the target level, and no other
\* entry changes.
C6_DegenerateRoundEvaluated ==
    [][RoundStep /\ HonestNow = {} =>
         /\ water_cups' = water_cups
         /\ pc' = "shuffle"
         /\ DOMAIN sum_succ_in_round' = DOMAIN sum_succ_in_round
         /\ \A r \in DOMAIN sum_succ_in_round :
              sum_succ_in_round'[r] =
                 IF r = t /\ AllBelow(water_cups, target_eps)
                 THEN sum_succ_in_round[r] + 1
                 ELSE sum_succ_in_round[r]]_vars

\* The second round of a trial sampled only corrupted cups after the first
\* round had brought every cup below the target level.
C6_Witness ==
    /\ pc = "shuffle"
    /\ t = 2
    /\ shuffled_batch # {}
    /\ HonestDone = {}
    /\ AllBelow(water_cups, target_eps)

\* C7: in every trial the corrupted set has exactly
\* floor(VECTOR_LENGTH * p / 100) distinct indices, all in 1..VECTOR_LENGTH-1
\* (never the tracked index 0), and it is the same set in all rounds of the
\* trial.
C7_TrackedNeverCorrupted ==
    /\ [](InTrial =>
            /\ bad_commitment_indices \subseteq 1 .. (VECTOR_LENGTH - 1)
            /\ 0 \notin bad_commitment_indices
            /\ Cardinality(bad_commitment_indices) = (VECTOR_LENGTH * p) \div 100)
    /\ [][InTrial => bad_commitment_indices' = bad_commitment_indices]_vars

\* A trial with two corrupted cups has run all its rounds.
C7_Witness ==
    /\ pc = "shuffle"
    /\ t = MAX_SHUFFLES
    /\ Cardinality(bad_commitment_indices) = 2

\* The number of steps run_sim still has to take: it is 0 when the run is
\* over and each repetition costs its MAX_SHUFFLES rounds plus its start and
\* its end.
StepsLeft ==
    CASE pc = "repetition" ->
           (NUMBER_OF_REPETITIONS - rep) * (MAX_SHUFFLES + 2) + 1
      [] pc = "shuffle" ->
           (NUMBER_OF_REPETITIONS - rep - 1) * (MAX_SHUFFLES + 2)
             + (MAX_SHUFFLES - t) + 2
      [] OTHER -> 0

\* The number of steps of a whole run: each repetition takes its start, its
\* MAX_SHUFFLES rounds and its end, and the report ends the run.
TotalSteps ==
    NUMBER_OF_REPETITIONS * (MAX_SHUFFLES + 2) + 1

\* C8: run_sim terminates (a step can be taken until the run is over, and
\* the steps taken and the steps left always add up to the fixed length of
\* a run); every trial runs exactly MAX_SHUFFLES rounds, whether or not it
\* has succeeded; after NUMBER_OF_REPETITIONS trials one result in
\* 0..MAX_SHUFFLES is produced; the sanity assertion never fires.
C8_Termination ==
    /\ pc = "done" \/ ENABLED Next
    /\ StepsLeft >= 0
    /\ steps + StepsLeft = TotalSteps
    /\ pc # "aborted"
    /\ t <= MAX_SHUFFLES
    /\ rep <= NUMBER_OF_REPETITIONS
    /\ (pc = "repetition" /\ rep > 0) \/ pc = "done" => t = MAX_SHUFFLES
    /\ pc = "done" =>
         /\ rep = NUMBER_OF_REPETITIONS
         /\ successful_round \in 0 .. MAX_SHUFFLES

\* The run has ended with a result that names a round.
C8_Witness ==
    /\ pc = "done"
    /\ rep = NUMBER_OF_REPETITIONS
    /\ successful_round = MAX_SHUFFLES

\* C9: within a trial no round raises the largest water level, so a trial
\* that is below the target level before a round is counted in that round,
\* and between trials the tally is non-decreasing in the round index.
C9_StickySuccess ==
    /\ [][RoundStep =>
            /\ \A i \in DOMAIN water_cups' :
                 \E j \in DOMAIN water_cups : RLeq(water_cups'[i], water_cups[j])
            /\ AllBelow(water_cups, target_eps) =>
                 /\ AllBelow(water_cups', target_eps)
                 /\ sum_succ_in_round'[t] = sum_succ_in_round[t] + 1]_vars
    /\ [](pc \in {"repetition", "done"} =>
            \A r \in 0 .. (MAX_SHUFFLES - 2) :
                sum_succ_in_round[r] <= sum_succ_in_round[r + 1])

\* The run has ended with a trial that failed in round 0 and succeeded in
\* round 1.
C9_Witness ==
    /\ pc = "done"
    /\ sum_succ_in_round[0] < sum_succ_in_round[1]

\* C10: after any number of rounds of a trial the water of all cups adds up
\* to exactly 1.0, every cup holds between 0.0 and 1.0, and the tracked cup 0
\* has an entry.
C10_GlobalConservation ==
    InTrial =>
        /\ 0 \in DOMAIN water_cups
        /\ TotalWater(water_cups, DOMAIN water_cups) = One
        /\ \A i \in DOMAIN water_cups :
             RLeq(Zero, water_cups[i]) /\ RLeq(water_cups[i], One)

\* Two rounds have spread the water over three cups: 1/2, 1/4 and 1/4.
C10_Witness ==
    /\ pc = "shuffle"
    /\ water_cups[0] = <<1, 2>>
    /\ \E i \in DOMAIN water_cups : water_cups[i] = <<1, 4>>

====
